---------------------------- MODULE Spec2Model ----------------------------
(***************************************************************************)
(* Model of the button-surface subsystem of                               *)
(* src/scripts/game_structure/ui_button.py: the style resolver (_Style),  *)
(* the surface cache (ButtonCache), the compositor (Button.new,           *)
(* RectButton, SquareButton) and the widget facade (UIButton, CatButton,  *)
(* with the attribute writes UIButton passes on to its two sub-widgets);  *)
(* and of load_image of src/scripts/game_structure/image_cache.py.        *)
(*                                                                         *)
(* Python values whose type the code inspects (isinstance, len, ==,       *)
(* truthiness) are records [t, b, n, s, l]: t is the Python type name and *)
(* the other fields hold the value of a bool, an int, a str, and a list   *)
(* or tuple (of bools).                                                   *)
(***************************************************************************)
EXTENDS Integers, Sequences, FiniteSets, TLC

VARIABLES
    styles_round,    \* _Style.styles_round: the "rounded" table of styles.json
    styles_hanging,  \* _Style.styles_hanging: the "hanging" table
    styles_shadow,   \* _Style.styles_shadow: the "shadow" table
    _storage,        \* ButtonCache._storage: the list of cache entries
    buttons,         \* the UIButton widgets constructed so far
    last,            \* the most recent cache or facade call and what it returned
    call,            \* the most recent call of a pure function and its result
    _images,         \* image_cache._images: the surfaces loaded, by path
    is_web,          \* scripts.platformwrapper.is_web
    loads,           \* how often pygame.image.load has returned a surface, by path
    ui               \* the attributes of a UIButton, of its UIImage and of its CatButton

vars == <<styles_round, styles_hanging, styles_shadow, _storage, buttons, last, call,
          _images, is_web, loads, ui>>

---------------------------------------------------------------------------
(* Bounds of the model. *)

\* most cache entries a run may hold
MaxStore == 3
\* most UIButton widgets a run may construct
MaxButtons == 2
\* most pieces of a label passed to _build_text
MaxLabel == 4
\* most surfaces pygame.image.load returns for one path
MaxLoads == 2

---------------------------------------------------------------------------
(* Python values. *)

PyNone == [t |-> "NoneType", b |-> FALSE, n |-> 0, s |-> "", l |-> <<>>]
PyBool(x) == [t |-> "bool", b |-> x, n |-> 0, s |-> "", l |-> <<>>]
PyInt(k) == [t |-> "int", b |-> FALSE, n |-> k, s |-> "", l |-> <<>>]
\* a str carries its length in n
PyStr(x, k) == [t |-> "str", b |-> FALSE, n |-> k, s |-> x, l |-> <<>>]
PyList(x) == [t |-> "list", b |-> FALSE, n |-> 0, s |-> "", l |-> x]
PyTuple(x) == [t |-> "tuple", b |-> FALSE, n |-> 0, s |-> "", l |-> x]
PyDict == [t |-> "dict", b |-> FALSE, n |-> 0, s |-> "", l |-> <<>>]

\* the number a bool or an int compares as
PyNum(v) == IF v.t = "bool" THEN (IF v.b THEN 1 ELSE 0) ELSE v.n

\* Python's a == b
PyEq(a, b) ==
    IF a.t \in {"bool", "int"} /\ b.t \in {"bool", "int"} THEN PyNum(a) = PyNum(b)
    ELSE IF a.t /= b.t THEN FALSE
    ELSE IF a.t \in {"list", "tuple"} THEN a.l = b.l
    ELSE IF a.t = "str" THEN a.s = b.s
    ELSE TRUE

\* Python's truth value of v (if v: ...)
Truthy(v) ==
    CASE v.t = "NoneType" -> FALSE
      [] v.t = "bool" -> v.b
      [] v.t = "int" -> v.n /= 0
      [] v.t = "str" -> v.n /= 0
      [] OTHER -> Len(v.l) > 0

\* dict.get(key): the value, or None for a key the dict does not hold
DictGet(table, key) == IF key \in DOMAIN table THEN table[key] ELSE PyNone

\* the object_id None of a button constructed without an identifier
NoneId == "None"

---------------------------------------------------------------------------
(* _Style: the style resolver. *)

DefaultRound == <<TRUE, TRUE, TRUE, TRUE>>
DefaultShadow == <<TRUE, TRUE, FALSE, FALSE>>

\* check_round without the broadcast of a bool
check_round_nobroadcast(object_id) ==
    LET style == DictGet(styles_round, object_id) IN
    IF style.t /= "NoneType" /\ style.t = "list" /\ Len(style.l) = 4 THEN style
    ELSE PyList(DefaultRound)

\* _Style.check_round(object_id)
check_round(object_id) ==
    LET style == DictGet(styles_round, object_id) IN
    IF style.t /= "NoneType" /\ style.t = "list" /\ Len(style.l) = 4 THEN style
    ELSE IF style.t /= "NoneType" /\ style.t = "bool"
         THEN PyList(<<style.b, style.b, style.b, style.b>>)
    ELSE PyList(DefaultRound)

\* _Style.check_hanging(object_id)
check_hanging(object_id) ==
    IF object_id = NoneId THEN PyBool(FALSE)
    ELSE LET style == DictGet(styles_hanging, object_id) IN
         IF style.t /= "NoneType" THEN style ELSE PyBool(FALSE)

\* check_shadow were it to broadcast a bool as check_round does
check_shadow_broadcast(object_id) ==
    IF object_id = NoneId THEN PyList(DefaultShadow)
    ELSE LET style == DictGet(styles_shadow, object_id) IN
         IF style.t /= "NoneType" /\ style.t = "list" /\ Len(style.l) = 4 THEN style
         ELSE IF style.t /= "NoneType" /\ style.t = "bool"
              THEN PyList(<<style.b, style.b, style.b, style.b>>)
         ELSE PyList(DefaultShadow)

\* _Style.check_shadow(object_id)
check_shadow(object_id) ==
    IF object_id = NoneId THEN PyList(DefaultShadow)
    ELSE LET style == DictGet(styles_shadow, object_id) IN
         IF style.t /= "NoneType" /\ style.t = "list" /\ Len(style.l) = 4 THEN style
         ELSE PyList(DefaultShadow)

---------------------------------------------------------------------------
(* ButtonCache: the surface cache.  A descriptor (the keyword arguments of *)
(* a call) is a record with the seven fields of keys; an entry of _storage *)
(* is a descriptor with the field surface added.                           *)

\* keys with one name forgotten
keys_nohanging == {"size", "text", "hover", "unavailable", "rounded_corners", "shadows"}

\* load_button: the names of the arguments compared
keys == {"size", "text", "hover", "unavailable", "rounded_corners", "shadows", "hanging"}

\* kwargs[key] == item[key]
KeyEq(key, kwargs, item) ==
    IF key \in {"rounded_corners", "shadows", "hanging"}
    THEN PyEq(kwargs[key], item[key])
    ELSE kwargs[key] = item[key]

\* a call's keyword arguments, the parameters left out taking their defaults
Kwargs(size, text, hover, unavailable, rounded_corners, shadows, hanging) ==
    [size |-> size, text |-> text, hover |-> hover, unavailable |-> unavailable,
     rounded_corners |-> rounded_corners, shadows |-> shadows, hanging |-> hanging]

\* load_button's return value: <<item>> for the entry found, <<>> for False
load_button(store, kwargs) ==
    LET obj == SelectSeq(store, LAMBDA item : \A key \in keys : KeyEq(key, kwargs, item)) IN
    IF Len(obj) /= 0 THEN <<obj[1]>> ELSE <<>>

StoreEntry(surface, kwargs) ==
    [surface |-> surface, size |-> kwargs.size, text |-> kwargs.text,
     hover |-> kwargs.hover, unavailable |-> kwargs.unavailable,
     rounded_corners |-> kwargs.rounded_corners, shadows |-> kwargs.shadows,
     hanging |-> kwargs.hanging]

\* store_button were it to replace an entry stored under the same descriptor
store_button_replace(store, surface, kwargs) ==
    Append(SelectSeq(store, LAMBDA item : \E key \in keys : ~KeyEq(key, kwargs, item)),
           StoreEntry(surface, kwargs))

\* the list after store_button(surface, **kwargs); the call returns surface
store_button(store, surface, kwargs) == Append(store, StoreEntry(surface, kwargs))

\* the descriptor an entry was stored under
EntryKey(item) ==
    Kwargs(item.size, item.text, item.hover, item.unavailable,
           item.rounded_corners, item.shadows, item.hanging)

---------------------------------------------------------------------------
(* The compositor: Button.new, RectButton and SquareButton.  A surface is  *)
(* a record of its dimensions and of what was drawn on it.                 *)

\* the keys of _Symbol._custom
GlyphKeys ==
    {"{DICE}", "{ARROW_LEFT_SHORT}", "{ARROW_RIGHT_SHORT}", "{ARROW_LEFT_MED}",
     "{ARROW_RIGHT_MED}", "{PATROL_CLAW}", "{PATROL_PAW}", "{PATROL_MOUSE}",
     "{PATROL_HERB}", "{YOUR_CLAN}", "{OUTSIDE_CLAN}", "{STARCLAN}",
     "{UNKNOWN_RESIDENCE}", "{DARK_FOREST}", "{LEADER_CEREMONY}", "{MEDIATION}"}

\* len(v); only called on a value that has a length
PyLen(v) == IF v.t = "str" THEN v.n ELSE Len(v.l)

\* v[i] as a flag (i counted from 0); a character of a str is truthy
PyFlag(v, i) == IF v.t = "str" THEN TRUE ELSE v.l[i + 1]

\* the check Button.new makes of rounded_corners and of shadows:
\* [exc |-> the exception raised or "none", v |-> the value carried on]
CheckShape(v) ==
    IF v.t = "bool" THEN [exc |-> "none", v |-> PyList(<<v.b, v.b, v.b, v.b>>)]
    ELSE IF v.t /= "list"
         THEN IF v.t \notin {"tuple", "str"} THEN [exc |-> "TypeError", v |-> v]
              ELSE IF PyLen(v) /= 4 THEN [exc |-> "ValueError", v |-> v]
              ELSE [exc |-> "none", v |-> v]
    ELSE [exc |-> "none", v |-> v]

\* self.size were the 6 px of the ropes never taken off
BodySize_nosub(size, hanging) == <<size[1], size[2]>>

\* self.size were the 6 px of the ropes always taken off
BodySize_sub(size, hanging) == <<size[1], size[2] - 6>>

\* RectButton.__init__: self.size, the size of the body

BodySize(size, hanging) ==
    IF Truthy(hanging) THEN <<size[1], size[2] - 6>> ELSE <<size[1], size[2]>>

\* RectButton.__init__ were hover tested before unavailable
SelectPalette_hoverfirst(hover, unavailable) ==
    IF hover THEN "hover" ELSE IF unavailable THEN "unavailable" ELSE "palette"

\* RectButton.__init__: self.palette
SelectPalette(hover, unavailable) ==
    IF unavailable THEN "unavailable" ELSE IF hover THEN "hover" ELSE "palette"

\* the surface _hang leaves in self.surface: the body moved down under the ropes
Hang(surface) ==
    [surface EXCEPT !.height = surface.body_size[2] + 6, !.body_top = 6, !.ropes = TRUE]

\* what a call leaves when it raises before pygame.Surface is called
NoSurface ==
    [width |-> 0, height |-> 0, body_size |-> <<0, 0>>, body_top |-> 0, ropes |-> FALSE,
     variant |-> "none", palette |-> "none", rounded |-> <<>>, shadow |-> <<>>,
     text |-> "", symbol |-> FALSE, text_center |-> <<0, 0>>, stretched |-> FALSE]

\* _build were the glyph branch tested before the hanging one
TextCenter_symbolfirst(body, hanging, symbol) ==
    IF symbol THEN <<body[1], body[2]>>
    ELSE IF Truthy(hanging) THEN <<body[1] + 2, body[2] + 4 + 12>>
    ELSE <<body[1] + 2, body[2] + 4>>

\* _build: the center given to self.text.get_rect, in half pixels (twice
\* each coordinate), in the coordinates of the surface the label is drawn on
TextCenter(body, hanging, symbol) ==
    IF Truthy(hanging) THEN <<body[1] + 2, body[2] + 4 + 12>>
    ELSE IF symbol THEN <<body[1], body[2]>>
    ELSE <<body[1] + 2, body[2] + 4>>

\* RectButton.__init__ (and SquareButton's, inherited) with the lists Button.new
\* passes on: [exc, created (pygame.Surface was called and returned), surface]
RectButton(variant, size, text, hover, unavailable, rounded_corners, shadows, hanging) ==
    LET body == BodySize(size, hanging)
        base == [width |-> body[1], height |-> body[2], body_size |-> body,
                 body_top |-> 0, ropes |-> FALSE, variant |-> variant,
                 palette |-> SelectPalette(hover, unavailable),
                 rounded |-> <<>>, shadow |-> <<>>,
                 text |-> text, symbol |-> text \in GlyphKeys, text_center |-> <<0, 0>>,
                 stretched |-> FALSE]
    IN  IF body[1] < 0 \/ body[2] < 0
        THEN [exc |-> "pygame.error", created |-> FALSE, surface |-> NoSurface]
        ELSE IF PyLen(rounded_corners) < 4 \/ PyLen(shadows) < 4
        THEN [exc |-> "IndexError", created |-> TRUE, surface |-> base]
        ELSE LET built == [base EXCEPT
                            !.rounded = [i \in 1..4 |-> PyFlag(rounded_corners, i - 1)],
                            !.shadow = [i \in 1..4 |-> PyFlag(shadows, i - 1)],
                            !.text_center = TextCenter(body, hanging, text \in GlyphKeys)]
             IN  [exc |-> "none", created |-> TRUE,
                  surface |-> IF Truthy(hanging) THEN Hang(built) ELSE built]

\* Button.new(**kwargs): [exc, created, surface]; surface is returned when exc = "none"
Button_new(kwargs) ==
    LET rc == CheckShape(kwargs.rounded_corners)
        sh == CheckShape(kwargs.shadows)
    IN  IF rc.exc /= "none" THEN [exc |-> rc.exc, created |-> FALSE, surface |-> NoSurface]
        ELSE IF sh.exc /= "none" THEN [exc |-> sh.exc, created |-> FALSE, surface |-> NoSurface]
        ELSE RectButton(IF kwargs.size[1] = kwargs.size[2] THEN "SquareButton" ELSE "RectButton",
                        kwargs.size, kwargs.text, kwargs.hover, kwargs.unavailable,
                        rc.v, sh.v, kwargs.hanging)

\* pygame.transform.scale(surface, size): a new surface of that size, its
\* content stretched when the size changes
Scale(surface, size) ==
    IF <<surface.width, surface.height>> = size THEN surface
    ELSE [surface EXCEPT !.width = size[1], !.height = size[2], !.stretched = TRUE]

---------------------------------------------------------------------------
(* _corner of RectButton and of SquareButton: a corner tile, cell by cell. *)
(* The colour of a cell is the index in self.palette of the last rectangle *)
(* drawn over it (1 outline, 2 inline, 3 fill, 4 shadow), 0 where nothing  *)
(* was drawn.                                                              *)

\* the cells of pygame.Surface((10, 8))
Cells == (0..9) \X (0..7)

\* the surface after the calls draws, each <<colour, x, y, w, h>>, of
\* pygame.draw.rect(surface, self.palette[colour], (x, y, w, h)), in order
Painted(draws) ==
    [c \in Cells |->
        LET hits == {i \in 1..Len(draws) :
                        /\ draws[i][2] <= c[1] /\ c[1] < draws[i][2] + draws[i][4]
                        /\ draws[i][3] <= c[2] /\ c[2] < draws[i][3] + draws[i][5]}
        IN  IF hits = {} THEN 0
            ELSE draws[CHOOSE i \in hits : \A j \in hits : j <= i][1]]

\* the square corner both variants draw when rounded is false
PlainCorner(shadow_corner1, shadow_corner2) ==
    Painted(<< <<1, 0, 0, 10, 2>>, <<1, 0, 0, 2, 8>>,
               <<2, 2, 2, 8, 2>>, <<2, 2, 2, 2, 6>>,
               <<3, 4, 4, 6, 2>> >>
            \o (IF shadow_corner1 THEN << <<4, 4, 4, 6, 2>> >> ELSE <<>>)
            \o (IF shadow_corner2 THEN << <<4, 4, 4, 2, 4>> >> ELSE <<>>))

\* RectButton._corner were one shadowed edge enough for the shadow colour
RectCorner_or(shadow_corner1, shadow_corner2, rounded) ==
    IF rounded
    THEN Painted(<< <<1, 6, 2, 4, 2>>, <<1, 4, 4, 2, 2>>, <<1, 2, 6, 2, 2>>,
                    <<2, 6, 4, 4, 2>>, <<2, 4, 6, 2, 2>>,
                    IF shadow_corner1 \/ shadow_corner2 THEN <<4, 6, 6, 4, 2>>
                    ELSE <<3, 6, 6, 4, 2>> >>)
    ELSE PlainCorner(shadow_corner1, shadow_corner2)

\* RectButton._corner(shadow_corner1, shadow_corner2, rounded)
RectCorner(shadow_corner1, shadow_corner2, rounded) ==
    IF rounded
    THEN Painted(<< <<1, 6, 2, 4, 2>>, <<1, 4, 4, 2, 2>>, <<1, 2, 6, 2, 2>>,
                    <<2, 6, 4, 4, 2>>, <<2, 4, 6, 2, 2>>,
                    IF shadow_corner1 /\ shadow_corner2 THEN <<4, 6, 6, 4, 2>>
                    ELSE <<3, 6, 6, 4, 2>> >>)
    ELSE PlainCorner(shadow_corner1, shadow_corner2)

\* SquareButton._corner(shadow_corner1, shadow_corner2, rounded)
SquareCorner(shadow_corner1, shadow_corner2, rounded) ==
    IF rounded
    THEN Painted(<< <<1, 4, 0, 6, 2>>, <<1, 2, 2, 2, 2>>, <<1, 0, 4, 2, 4>>,
                    <<3, 4, 4, 4, 4>>,
                    <<2, 4, 2, 6, 2>>, <<2, 2, 4, 4, 2>>, <<2, 2, 4, 2, 4>> >>
                 \o (IF shadow_corner1 THEN << <<4, 6, 4, 4, 2>>, <<4, 4, 6, 2, 2>> >>
                     ELSE IF shadow_corner2 THEN << <<4, 4, 6, 2, 2>>, <<4, 6, 4, 2, 2>> >>
                     ELSE <<>>))
    ELSE PlainCorner(shadow_corner1, shadow_corner2)

\* self._corner of the variant built
Corner(variant, shadow_corner1, shadow_corner2, rounded) ==
    IF variant = "SquareButton" THEN SquareCorner(shadow_corner1, shadow_corner2, rounded)
    ELSE RectCorner(shadow_corner1, shadow_corner2, rounded)

\* pygame.transform.flip(tile, flip_x, flip_y)
Flip(tile, flip_x, flip_y) ==
    [c \in Cells |-> tile[<<IF flip_x THEN 9 - c[1] ELSE c[1], IF flip_y THEN 7 - c[2] ELSE c[2]>>]]

\* _build: the four corner tiles as blitted, in the order corners 1, 3, 7, 9
\* (top left, top right, bottom left, bottom right); rounded_corners and
\* shadow are the lists of four flags
BuildCorners(variant, rounded_corners, shadow) ==
    << Corner(variant, shadow[1], shadow[2], rounded_corners[1]),
       Flip(Corner(variant, shadow[1], shadow[3], rounded_corners[2]), TRUE, FALSE),
       Flip(Corner(variant, shadow[4], shadow[2], rounded_corners[3]), FALSE, TRUE),
       Flip(Corner(variant, shadow[4], shadow[3], rounded_corners[4]), TRUE, TRUE) >>

---------------------------------------------------------------------------
(* RectButton._edge: an edge tile, as the widths of its three bands. *)

\* Python's round(length / 2): the nearest integer, a half going to the
\* even neighbour
PyRoundHalf(length) ==
    IF length % 2 = 0 THEN length \div 2
    ELSE LET low == (length - 1) \div 2 IN
         IF low % 2 = 0 THEN low ELSE low + 1

\* Python's int(length / 2): the quotient cut towards zero
PyIntHalf(length) ==
    IF length >= 0 THEN length \div 2 ELSE -((-length) \div 2)

\* RectButton._edge(length, rotate, flip, shadow): the tile, given by the
\* length of its surface and the widths passed for its three bands
_edge(length, rotate, flip, shadow) ==
    LET odd == PyRoundHalf(length) /= PyIntHalf(length) /\ ~rotate
        length1 == IF odd THEN length + 1 ELSE length
        length2 == IF length1 <= 0 THEN 0 ELSE length1
    IN  [length |-> length2,
         outline |-> length2,
         inline |-> IF ~odd THEN length2 ELSE length2 - 1,
         fill |-> IF ~odd THEN length2 ELSE length2 - 1,
         colour |-> IF shadow THEN "shadow" ELSE "fill",
         rotated |-> rotate,
         flipped |-> flip]

---------------------------------------------------------------------------
(* RectButton._build_text: the surface of the label.  In this part a str   *)
(* is the sequence of its pieces, a piece being a brace, a newline or a    *)
(* run of other characters; Str gives the str the pieces spell.            *)

RECURSIVE Str(_)
Str(chars) == IF chars = <<>> THEN "" ELSE Head(chars) \o Str(Tail(chars))

\* _Symbol._custom.get(item) is truthy: item is a key of the table
IsGlyph(item) == Str(item) \in GlyphKeys

\* _Symbol._custom[key]: the image the table holds
Glyph(key) == [kind |-> "glyph", key |-> key]

\* text.split("\n")
RECURSIVE split_lines(_)
split_lines(text) ==
    IF text = <<>> THEN << <<>> >>
    ELSE LET before == split_lines(SubSeq(text, 1, Len(text) - 1))
             c == text[Len(text)]
         IN  IF c = "\n" THEN Append(before, <<>>)
             ELSE [before EXCEPT ![Len(before)] = Append(@, c)]

\* re.split(r"({|})", line): the runs between the braces and the braces
RECURSIVE re_split(_)
re_split(line) ==
    IF line = <<>> THEN << <<>> >>
    ELSE LET before == re_split(SubSeq(line, 1, Len(line) - 1))
             c == line[Len(line)]
         IN  IF c \in {"{", "}"} THEN before \o << <<c>>, <<>> >>
             ELSE [before EXCEPT ![Len(before)] = Append(@, c)]

\* seq[k] as Python indexes a list (k counted from 0, a negative k from the
\* end): <<the element>>, or <<>> where Python raises IndexError
PyIndex(seq, k) ==
    IF k >= 0 /\ k < Len(seq) THEN <<seq[k + 1]>>
    ELSE IF k < 0 /\ -k <= Len(seq) THEN <<seq[Len(seq) + k + 1]>>
    ELSE <<>>

\* the loop body were a closing brace outside a token refused
FormatStep_strict(formatted, regex, e) ==
    LET char == regex[e + 1]
        n == Len(formatted)
        prev == PyIndex(regex, e - 1)
    IN  IF char = <<>> THEN [exc |-> "none", formatted |-> formatted]
        ELSE IF char = <<"{">> THEN [exc |-> "none", formatted |-> Append(formatted, char)]
        ELSE IF prev = <<>> THEN [exc |-> "IndexError", formatted |-> formatted]
        ELSE IF prev[1] = <<"{">>
             THEN [exc |-> "none", formatted |-> [formatted EXCEPT ![n] = @ \o char]]
        ELSE IF char = <<"}">>
             THEN IF formatted[n] = <<>> \/ formatted[n][1] /= "{"
                  THEN [exc |-> "ValueError", formatted |-> formatted]
                  ELSE [exc |-> "none",
                        formatted |-> Append([formatted EXCEPT ![n] = @ \o char], <<>>)]
        ELSE [exc |-> "none", formatted |-> [formatted EXCEPT ![n] = @ \o char]]

\* the body of "for e,char in enumerate(regex)": [exc, formatted]
FormatStep(formatted, regex, e) ==
    LET char == regex[e + 1]
        n == Len(formatted)
        prev == PyIndex(regex, e - 1)
    IN  IF char = <<>> THEN [exc |-> "none", formatted |-> formatted]
        ELSE IF char = <<"{">> THEN [exc |-> "none", formatted |-> Append(formatted, char)]
        ELSE IF prev = <<>> THEN [exc |-> "IndexError", formatted |-> formatted]
        ELSE IF prev[1] = <<"{">>
             THEN [exc |-> "none", formatted |-> [formatted EXCEPT ![n] = @ \o char]]
        ELSE IF char = <<"}">>
             THEN [exc |-> "none",
                   formatted |-> Append([formatted EXCEPT ![n] = @ \o char], <<>>)]
        ELSE [exc |-> "none", formatted |-> [formatted EXCEPT ![n] = @ \o char]]

\* the loop over regex from position e on, stopping where a step raises
RECURSIVE Format(_, _, _)
Format(formatted, regex, e) ==
    IF e >= Len(regex) THEN [exc |-> "none", formatted |-> formatted]
    ELSE LET step == FormatStep(formatted, regex, e) IN
         IF step.exc /= "none" THEN step ELSE Format(step.formatted, regex, e + 1)

\* what is appended to surfaces for item: the glyph on a surface 4 px
\* higher, or the item rendered with FONT
Run(item) ==
    IF IsGlyph(item) THEN [kind |-> "padded_glyph", s |-> Str(item), chars |-> item]
    ELSE [kind |-> "font", s |-> Str(item), chars |-> item]

\* the point size FONT is opened with
FontPoints == 16

\* FONT.render(item, False, COLOR): [width, height] of the image, every
\* character as wide as half the point size and the line as high as the point size
FontSize(item) == [width |-> (FontPoints \div 2) * Len(Str(item)), height |-> FontPoints]

\* _Symbol._custom[key].get_width(), .get_height(): the images are 16 by 16
GlyphSize(key) == [width |-> 16, height |-> 16]

\* the size of a member of surfaces were the glyph not padded
RunSize_nopad(run) ==
    IF run.kind = "padded_glyph" THEN GlyphSize(run.s) ELSE FontSize(run.chars)

\* text.get_width(), text.get_height() of a member of surfaces: the glyph on
\* a surface of its width and its height + 4, or the rendered item
RunSize(run) ==
    IF run.kind = "padded_glyph"
    THEN [width |-> GlyphSize(run.s).width, height |-> GlyphSize(run.s).height + 4]
    ELSE FontSize(run.chars)

\* width_temp, and current_width, after n members of surfaces
RECURSIVE WidthAfter(_, _)
WidthAfter(surfaces, n) ==
    IF n = 0 THEN 0 ELSE WidthAfter(surfaces, n - 1) + surfaces[n].width

\* height_temp after n members of surfaces
RECURSIVE HeightTemp(_, _)
HeightTemp(surfaces, n) ==
    IF n = 0 THEN 0
    ELSE LET height_temp == HeightTemp(surfaces, n - 1)
         IN  IF surfaces[n].height > height_temp THEN surfaces[n].height ELSE height_temp

\* text_surface of one line: its size and where each member of surfaces is
\* blitted (x; y is 0)
TextSurface(runs) ==
    LET surfaces == [i \in 1..Len(runs) |-> RunSize(runs[i])]
    IN  [width |-> WidthAfter(surfaces, Len(surfaces)),
         height |-> HeightTemp(surfaces, Len(surfaces)),
         blits |-> [i \in 1..Len(surfaces) |->
                       [width |-> surfaces[i].width, height |-> surfaces[i].height,
                        x |-> WidthAfter(surfaces, i - 1)]]]

\* height, and current_height, after n members of texts
RECURSIVE HeightAfter(_, _)
HeightAfter(texts, n) ==
    IF n = 0 THEN 0 ELSE HeightAfter(texts, n - 1) + texts[n].height

\* width after n members of texts
RECURSIVE WidthMax(_, _)
WidthMax(texts, n) ==
    IF n = 0 THEN 0
    ELSE LET width == WidthMax(texts, n - 1)
         IN  IF texts[n].width > width THEN texts[n].width ELSE width

\* the surface _build_text returns for the lines' runs: lines keeps the runs,
\* rows where each text_surface is blitted; x2 is twice the x passed to blit,
\* width / 2 - text.get_width() / 2
LabelSurface(lines) ==
    LET texts == [i \in 1..Len(lines) |-> TextSurface(lines[i])]
        width == WidthMax(texts, Len(texts))
    IN  [kind |-> "layout", lines |-> lines,
         width |-> width, height |-> HeightAfter(texts, Len(texts)),
         rows |-> [i \in 1..Len(texts) |->
                      [width |-> texts[i].width, height |-> texts[i].height,
                       blits |-> texts[i].blits,
                       x2 |-> width - texts[i].width,
                       y |-> HeightAfter(texts, i - 1)]]]

\* the turn were formatted not filtered
BuildLine_nofilter(line) ==
    LET f == Format(<< <<>> >>, re_split(line), 0)
    IN  [exc |-> f.exc, runs |-> [i \in 1..Len(f.formatted) |-> Run(f.formatted[i])]]

\* one turn of "for line in text.split(...)": [exc, runs of text_surface]
BuildLine(line) ==
    LET f == Format(<< <<>> >>, re_split(line), 0)
        items == SelectSeq(f.formatted, LAMBDA item : item /= <<>>)
    IN  [exc |-> f.exc, runs |-> [i \in 1..Len(items) |-> Run(items[i])]]

\* _build_text were it without the test of the whole label
_build_text_noshort(text) ==
    LET lines == split_lines(text)
        built == [i \in 1..Len(lines) |-> BuildLine(lines[i])]
        raised == {i \in 1..Len(lines) : built[i].exc /= "none"}
    IN  IF raised /= {}
        THEN [exc |-> built[CHOOSE i \in raised : \A j \in raised : i <= j].exc,
              symbol |-> FALSE, surface |-> [kind |-> "none"]]
        ELSE [exc |-> "none", symbol |-> FALSE,
              surface |-> LabelSurface([i \in 1..Len(lines) |-> built[i].runs])]

\* RectButton._build_text(text): [exc, symbol (self.symbol), surface]
_build_text(text) ==
    IF IsGlyph(text)
    THEN [exc |-> "none", symbol |-> TRUE, surface |-> Glyph(Str(text))]
    ELSE LET lines == split_lines(text)
             built == [i \in 1..Len(lines) |-> BuildLine(lines[i])]
             raised == {i \in 1..Len(lines) : built[i].exc /= "none"}
         IN  IF raised /= {}
             THEN [exc |-> built[CHOOSE i \in raised : \A j \in raised : i <= j].exc,
                   symbol |-> FALSE, surface |-> [kind |-> "none"]]
             ELSE [exc |-> "none", symbol |-> FALSE,
                   surface |-> LabelSurface([i \in 1..Len(lines) |-> built[i].runs])]

---------------------------------------------------------------------------
(* _Language: the label of a button constructed without a text. *)

\* _Language.LANGUAGE
LANGUAGE == "pt-br"

\* _Language.dict_global
dict_global ==
    [k \in {"#cat_tab_3_blank_button", "#cat_tab_4_blank_button", "#random_dice_button",
            "#paw_patrol_button", "#claws_patrol_button", "#mouse_patrol_button",
            "#herb_patrol_button", "#patrol_last_page", "#patrol_next_page",
            "#arrow_right_button", "#arrow_left_button"} |->
        CASE k \in {"#cat_tab_3_blank_button", "#cat_tab_4_blank_button"} -> ""
          [] k = "#random_dice_button" -> "{DICE}"
          [] k = "#paw_patrol_button" -> "{PATROL_PAW}"
          [] k = "#claws_patrol_button" -> "{PATROL_CLAW}"
          [] k = "#mouse_patrol_button" -> "{PATROL_MOUSE}"
          [] k = "#herb_patrol_button" -> "{PATROL_HERB}"
          [] k \in {"#patrol_last_page", "#arrow_left_button"} -> "{ARROW_LEFT_SHORT}"
          [] OTHER -> "{ARROW_RIGHT_SHORT}"]

\* the button files i18n loads from languages/buttons, per locale
Translations ==
    [locale \in {"en-us", "pt-br"} |->
        IF locale = "en-us" THEN [k \in {"#hang", "#save"} |-> IF k = "#hang" THEN "Hang" ELSE "Save"]
        ELSE [k \in {"#save"} |-> "Salvar"]]

\* i18n.t(search_term, locale=locale): the translation, or the search term
\* itself when the locale has none
i18n_t(object_id, locale) ==
    IF object_id \in DOMAIN Translations[locale] THEN Translations[locale][object_id]
    ELSE "buttons." \o object_id

\* _Language.check(object_id)
Language_check(object_id) ==
    IF object_id = NoneId THEN ""
    ELSE IF i18n_t(object_id, LANGUAGE) /= "buttons." \o object_id
         THEN i18n_t(object_id, LANGUAGE)
    ELSE IF object_id \in DOMAIN dict_global THEN dict_global[object_id]
    ELSE IF LANGUAGE = "en-us" THEN ""
    ELSE i18n_t(object_id, "en-us")

---------------------------------------------------------------------------
(* The facade: UIButton and its CatButton.  A widget is a record of the    *)
(* fields the two objects hold; image is the surface its UIImage displays, *)
(* is_enabled what the disable and enable of the class CatButton extends   *)
(* leave in the button.                                                    *)

\* the lookup-or-compose every facade method performs: the cache is searched
\* with lookup and, on a miss, Button.new(**compose) is stored under compose.
\* [exc, store (the list afterwards), sprite, composed (Button.new was called)]
Render(store, lookup, compose) ==
    LET cache == load_button(store, lookup) IN
    IF Len(cache) /= 0
    THEN [exc |-> "none", store |-> store, sprite |-> cache[1].surface, composed |-> FALSE]
    ELSE LET made == Button_new(compose) IN
         IF made.exc /= "none"
         THEN [exc |-> made.exc, store |-> store, sprite |-> NoSurface, composed |-> TRUE]
         ELSE [exc |-> "none", store |-> store_button(store, made.surface, compose),
               sprite |-> made.surface, composed |-> TRUE]

\* the keyword arguments a CatButton method passes for widget w
ButtonKwargs(w, hover, unavailable) ==
    Kwargs(w.size, w.text, hover, unavailable, w.rounded_corners, w.shadows, w.hanging)

\* the keyword arguments UIButton.__init__ passes to load_button: size and
\* text, the other parameters taking load_button's defaults
LookupKwargs(w) ==
    Kwargs(w.size, w.text, FALSE, FALSE, PyList(DefaultRound), PyList(DefaultShadow),
           PyBool(FALSE))

\* a step is taken only while the cache has room for what it stores
Room(r) == Len(r.store) <= MaxStore

NoCall == [op |-> "none"]

\* UIButton(relative_rect, text, object_id=object_id)
UIButton(size, text, object_id) ==
    LET w == [size |-> size, id |-> object_id,
              rounded_corners |-> check_round(object_id),
              hanging |-> check_hanging(object_id),
              shadows |-> check_shadow(object_id),
              text |-> IF text /= "" THEN text ELSE Language_check(object_id),
              hover |-> FALSE, is_enabled |-> TRUE, image |-> NoSurface]
        r == Render(_storage, LookupKwargs(w), ButtonKwargs(w, FALSE, FALSE))
    IN  /\ Len(buttons) < MaxButtons
        /\ Room(r)
        /\ _storage' = r.store
        /\ buttons' = IF r.exc /= "none" THEN buttons
                      ELSE Append(buttons, [w EXCEPT !.image = Scale(r.sprite, size)])
        /\ UNCHANGED <<ui, _images, is_web, loads, styles_round, styles_hanging, styles_shadow, last, call>>

\* what a CatButton method does to widget i: it sets self.hover to hover_field,
\* renders with the flags hover and unavailable, shows the sprite and calls
\* the method it overrides, which leaves is_enabled in the widget
Show(i, hover_field, hover, unavailable, is_enabled) ==
    LET w == buttons[i]
        kw == ButtonKwargs(w, hover, unavailable)
        r == Render(_storage, kw, kw)
    IN  /\ Room(r)
        /\ _storage' = r.store
        /\ buttons' = [buttons EXCEPT ![i] =
                          IF r.exc /= "none" THEN [w EXCEPT !.hover = hover_field]
                          ELSE [w EXCEPT !.hover = hover_field,
                                         !.image = Scale(r.sprite, w.size),
                                         !.is_enabled = is_enabled]]
        /\ UNCHANGED <<ui, _images, is_web, loads, styles_round, styles_hanging, styles_shadow, last, call>>

\* on_hovered were hover=True left out of its arguments
on_hovered_nohover(i) == Show(i, TRUE, FALSE, FALSE, buttons[i].is_enabled)

\* CatButton.on_hovered
on_hovered(i) == Show(i, TRUE, TRUE, FALSE, buttons[i].is_enabled)

\* CatButton.while_hovered
while_hovered(i) ==
    /\ buttons' = [buttons EXCEPT ![i].hover = TRUE]
    /\ UNCHANGED <<ui, _images, is_web, loads, styles_round, styles_hanging, styles_shadow, _storage, last, call>>

\* CatButton.disable
disable(i) == Show(i, FALSE, FALSE, TRUE, FALSE)

\* enable were it to pass no hover flag
enable_default(i) == Show(i, buttons[i].hover, FALSE, FALSE, TRUE)

\* CatButton.enable
enable(i) == Show(i, buttons[i].hover, buttons[i].hover, FALSE, TRUE)

\* CatButton.on_unhovered
on_unhovered(i) == Show(i, FALSE, FALSE, FALSE, buttons[i].is_enabled)

---------------------------------------------------------------------------
(* UIButton.__setattr__: ui holds, for the wrapper, its UIImage and its    *)
(* CatButton, the value of each attribute name, Absent where the object    *)
(* has no such attribute.                                                   *)

\* the names __setattr__ tests for
Mirrored == {"visible", "dynamic_dimensions_orig_top_left", "_rect", "blit_data"}

\* two of the names it does not test for
Unmirrored == {"state", "text"}

AttrNames == Mirrored \cup Unmirrored

\* name is not in the object's __dict__
Absent == "absent"

\* the values assigned
AttrValues == {"v1", "v2"}

\* before UIButton.__init__
NoUi ==
    [made |-> FALSE, wrapper |-> [n \in AttrNames |-> Absent],
     image |-> [n \in AttrNames |-> Absent], button |-> [n \in AttrNames |-> Absent]]

\* __setattr__ were it without the branch of _rect
__setattr___norect(w, name, value) ==
    LET d == [w EXCEPT !.wrapper[name] = value] IN
    IF name = "visible"
    THEN [d EXCEPT !.image["visible"] = value, !.button["visible"] = value]
    ELSE IF name = "dynamic_dimensions_orig_top_left"
    THEN [d EXCEPT !.image["dynamic_dimensions_orig_top_left"] = value,
                   !.button["dynamic_dimensions_orig_top_left"] = value]
    ELSE IF name = "blit_data"
    THEN [d EXCEPT !.image["blit_data"] = value, !.button["blit_data"] = value]
    ELSE d

\* UIButton.__setattr__(self, name, value), self and its sub-widgets being w
__setattr__(w, name, value) ==
    LET d == [w EXCEPT !.wrapper[name] = value] IN
    IF name = "visible"
    THEN [d EXCEPT !.image["visible"] = value, !.button["visible"] = value]
    ELSE IF name = "dynamic_dimensions_orig_top_left"
    THEN [d EXCEPT !.image["dynamic_dimensions_orig_top_left"] = value,
                   !.button["dynamic_dimensions_orig_top_left"] = value]
    ELSE IF name = "_rect"
    THEN [d EXCEPT !.image["_rect"] = value, !.button["_rect"] = value]
    ELSE IF name = "blit_data"
    THEN [d EXCEPT !.image["blit_data"] = value, !.button["blit_data"] = value]
    ELSE d

\* UIButton.__init__, the attributes it leaves: state and text are assigned,
\* the UIImage and the CatButton are constructed with visible=visible, each
\* with values of its own (image_own, button_own) in its other attributes,
\* and visible is assigned last
UIButton__init__(visible, text, image_own, button_own) ==
    LET named == __setattr__(__setattr__(NoUi, "state", "default"), "text", text)
        with_image == [named EXCEPT !.image =
                          [n \in AttrNames |-> IF n = "visible" THEN visible ELSE image_own]]
        with_button == [with_image EXCEPT !.button =
                           [n \in AttrNames |-> IF n = "visible" THEN visible ELSE button_own]]
    IN  /\ ~ui.made
        /\ ui' = [__setattr__(with_button, "visible", visible) EXCEPT !.made = TRUE]
        /\ UNCHANGED <<_images, is_web, loads, styles_round, styles_hanging, styles_shadow,
                       _storage, buttons, last, call>>

\* an assignment wrapper.name = value in the code that uses the widget
setattr(name, value) ==
    /\ ui.made
    /\ ui' = __setattr__(ui, name, value)
    /\ UNCHANGED <<_images, is_web, loads, styles_round, styles_hanging, styles_shadow,
                   _storage, buttons, last, call>>

---------------------------------------------------------------------------
(* image_cache: load_image and its dict _images.  A surface object is      *)
(* identified by its path and by which load of that path returned it.      *)

\* the paths load_image is called with, and those of them that name a file
Paths == {"a.png", "b.png", "c.png", "missing.png"}
Files == {"a.png", "b.png", "c.png"}

NoImage == [path |-> "", n |-> 0]

\* the state of image_cache before the first call, off the web platform
NoImages ==
    /\ _images = [path \in {} |-> NoImage]
    /\ is_web = FALSE
    /\ loads = [path \in Paths |-> 0]

\* load_image were the surface it loads never kept
load_image_nostore(path) ==
    /\ loads[path] < MaxLoads
    /\ IF path \in Files
       THEN /\ loads' = [loads EXCEPT ![path] = @ + 1]
            /\ last' = [op |-> "load_image", path |-> path,
                        cached |-> path \in DOMAIN _images, loaded |-> TRUE,
                        exc |-> "none", ret |-> [path |-> path, n |-> loads[path] + 1]]
       ELSE /\ loads' = loads
            /\ last' = [op |-> "load_image", path |-> path,
                        cached |-> path \in DOMAIN _images, loaded |-> TRUE,
                        exc |-> "FileNotFoundError", ret |-> NoImage]
    /\ UNCHANGED <<ui, _images, is_web, styles_round, styles_hanging, styles_shadow, _storage,
                   buttons, call>>

\* load_image(path).  last records whether path was in _images when the
\* call began (cached), whether pygame.image.load was called (loaded), the
\* exception raised and the surface returned.
load_image(path) ==
    /\ loads[path] < MaxLoads
    /\ IF is_web \/ path \notin DOMAIN _images
       THEN IF path \in Files
            THEN /\ loads' = [loads EXCEPT ![path] = @ + 1]
                 /\ _images' = IF is_web THEN _images
                               ELSE [q \in DOMAIN _images \cup {path} |->
                                        IF q = path THEN [path |-> path, n |-> loads[path] + 1]
                                        ELSE _images[q]]
                 /\ last' = [op |-> "load_image", path |-> path,
                             cached |-> path \in DOMAIN _images, loaded |-> TRUE,
                             exc |-> "none", ret |-> [path |-> path, n |-> loads[path] + 1]]
            ELSE /\ UNCHANGED <<loads, _images>>
                 /\ last' = [op |-> "load_image", path |-> path,
                             cached |-> path \in DOMAIN _images, loaded |-> TRUE,
                             exc |-> "FileNotFoundError", ret |-> NoImage]
       ELSE /\ UNCHANGED <<loads, _images>>
            /\ last' = [op |-> "load_image", path |-> path, cached |-> TRUE,
                        loaded |-> FALSE, exc |-> "none", ret |-> _images[path]]
    /\ UNCHANGED <<ui, is_web, styles_round, styles_hanging, styles_shadow, _storage, buttons, call>>

---------------------------------------------------------------------------
(* Inputs. *)

\* rectangle sizes of the widgets constructed
Sizes == {<<60, 30>>}
\* the text argument of UIButton
Texts == {"Hang"}
\* the object_id argument of UIButton
ObjectIds == {NoneId, "#hang"}

\* the tables of resources/styles.json the facade runs start from
StyleConfigs ==
    {[rounded |-> [k \in {"#hang"} |-> PyList(<<TRUE, TRUE, FALSE, FALSE>>)],
      hanging |-> [k \in {"#hang"} |-> PyBool(TRUE)],
      shadow |-> [k \in {"#hang"} |-> PyList(<<TRUE, TRUE, TRUE, TRUE>>)]]}

InitFacade ==
    /\ \E c \in StyleConfigs :
          /\ styles_round = c.rounded
          /\ styles_hanging = c.hanging
          /\ styles_shadow = c.shadow
    /\ _storage = <<>>
    /\ buttons = <<>>
    /\ last = NoCall
    /\ call = NoCall
    /\ NoImages
    /\ ui = NoUi

NextFacade ==
    \/ \E size \in Sizes, text \in Texts, object_id \in ObjectIds :
          UIButton(size, text, object_id)
    \/ \E i \in 1..Len(buttons) : on_hovered(i)
    \/ \E i \in 1..Len(buttons) : while_hovered(i)
    \/ \E i \in 1..Len(buttons) : disable(i)
    \/ \E i \in 1..Len(buttons) : enable(i)
    \/ \E i \in 1..Len(buttons) : on_unhovered(i)

\* the facade alone: widgets constructed and driven by the widget framework
SpecFacade == InitFacade /\ [][NextFacade]_vars

---------------------------------------------------------------------------
(* The cache called directly. *)

\* the descriptor the direct calls vary
BaseKwargs ==
    Kwargs(<<60, 30>>, "Hang", FALSE, FALSE, PyList(DefaultRound), PyList(DefaultShadow),
           PyBool(FALSE))

\* the number of fields on which two descriptors differ
Distance(a, b) == Cardinality({key \in keys : a[key] /= b[key]})

\* the descriptors of the direct calls: BaseKwargs and every descriptor that
\* differs from it in one field
ApiKwargs ==
    {d \in [size : {<<60, 30>>, <<40, 40>>}, text : {"Hang", ""}, hover : BOOLEAN,
            unavailable : BOOLEAN,
            rounded_corners : {PyList(DefaultRound), PyList(<<TRUE, TRUE, FALSE, FALSE>>)},
            shadows : {PyList(DefaultShadow), PyList(<<TRUE, TRUE, TRUE, TRUE>>)},
            hanging : {PyBool(FALSE), PyBool(TRUE)}] : Distance(d, BaseKwargs) <= 1}

\* the surfaces the direct calls store
ApiSurfaces ==
    {Button_new(BaseKwargs).surface, Button_new([BaseKwargs EXCEPT !.hover = TRUE]).surface}

\* ButtonCache.store_button(surface, **kwargs)
StoreButtonCall(surface, kwargs) ==
    /\ Len(_storage) < MaxStore
    /\ _storage' = store_button(_storage, surface, kwargs)
    /\ last' = [op |-> "store_button", kwargs |-> kwargs, surface |-> surface, ret |-> <<>>]
    /\ UNCHANGED <<ui, _images, is_web, loads, styles_round, styles_hanging, styles_shadow, buttons, call>>

\* ButtonCache.load_button(**kwargs)
LoadButtonCall(kwargs) ==
    /\ last' = [op |-> "load_button", kwargs |-> kwargs, surface |-> NoSurface,
                ret |-> load_button(_storage, kwargs)]
    /\ UNCHANGED <<ui, _images, is_web, loads, styles_round, styles_hanging, styles_shadow, _storage, buttons, call>>

NextCache ==
    \/ \E surface \in ApiSurfaces, kwargs \in ApiKwargs : StoreButtonCall(surface, kwargs)
    \/ \E kwargs \in ApiKwargs : LoadButtonCall(kwargs)

\* the cache alone, called with any descriptor and surface
SpecCache == InitFacade /\ [][NextCache]_vars

---------------------------------------------------------------------------
(* The cache called directly while the facade runs. *)

\* the descriptors of the direct calls made beside the facade
MixKwargs == {BaseKwargs}
\* the surface they store
MixSurfaces == {Button_new([BaseKwargs EXCEPT !.hover = TRUE]).surface}
\* the object_id of the widgets constructed beside them: a button of the
\* default style, whose descriptor is the one of the direct calls
MixIds == {NoneId}

Init == InitFacade

Next ==
    \/ \E surface \in MixSurfaces, kwargs \in MixKwargs : StoreButtonCall(surface, kwargs)
    \/ \E kwargs \in MixKwargs : LoadButtonCall(kwargs)
    \/ \E object_id \in MixIds : UIButton(<<60, 30>>, "Hang", object_id)
    \/ \E i \in 1..Len(buttons) : on_hovered(i)
    \/ \E i \in 1..Len(buttons) : while_hovered(i)
    \/ \E i \in 1..Len(buttons) : disable(i)
    \/ \E i \in 1..Len(buttons) : enable(i)
    \/ \E i \in 1..Len(buttons) : on_unhovered(i)

Spec == Init /\ [][Next]_vars

---------------------------------------------------------------------------
(* Button.new called on its own. *)

\* values passed as rounded_corners and as shadows
ShapeValues ==
    {PyBool(TRUE), PyBool(FALSE),
     PyList(<<TRUE, TRUE, TRUE, TRUE>>), PyList(<<TRUE, FALSE, TRUE, FALSE>>),
     PyList(<<TRUE, TRUE, TRUE>>), PyList(<<TRUE, TRUE, FALSE, FALSE, TRUE>>),
     PyTuple(<<TRUE, TRUE, FALSE, FALSE>>), PyTuple(<<TRUE, TRUE, TRUE>>)}

\* widths and heights passed as size
NewWidths == {0, 40, 61}
NewHeights == {5, 6, 40}

NewKwargs ==
    [size : NewWidths \X NewHeights, text : {"", "{DICE}"}, hover : BOOLEAN,
     unavailable : BOOLEAN, rounded_corners : ShapeValues, shadows : ShapeValues,
     hanging : {PyBool(FALSE), PyBool(TRUE)}]

\* Button.new(**kwargs)
ButtonNewCall(kwargs) ==
    /\ call.op = "none"
    /\ call' = [op |-> "Button.new", kwargs |-> kwargs, ret |-> Button_new(kwargs)]
    /\ UNCHANGED <<ui, _images, is_web, loads, styles_round, styles_hanging, styles_shadow, _storage, buttons, last>>

\* the caller takes the result
Return ==
    /\ call.op /= "none"
    /\ call' = NoCall
    /\ UNCHANGED <<ui, _images, is_web, loads, styles_round, styles_hanging, styles_shadow, _storage, buttons, last>>

NextCompose ==
    \/ \E kwargs \in NewKwargs : ButtonNewCall(kwargs)
    \/ Return

SpecCompose == InitFacade /\ [][NextCompose]_vars

---------------------------------------------------------------------------
(* _Style called on its own, over every shape an entry of styles.json can   *)
(* take.                                                                   *)

\* values of the entries of a table of styles.json (null loads as None)
JsonValues ==
    {PyNone, PyBool(TRUE), PyBool(FALSE), PyInt(0), PyInt(1), PyStr("round", 5), PyDict,
     PyList(<<>>), PyList(<<TRUE, FALSE, TRUE>>), PyList(<<TRUE, FALSE, TRUE, FALSE>>),
     PyList(<<FALSE, FALSE, FALSE, FALSE>>), PyList(<<TRUE, TRUE, TRUE, TRUE, TRUE>>)}

\* the identifiers the tables hold, and those looked up
StyledIds == {"#a", "#b"}
LookupIds == {NoneId, "#a", "#b", "#c"}

InitStyle ==
    /\ styles_round \in [StyledIds -> JsonValues]
    /\ styles_hanging = [k \in {} |-> PyNone]
    /\ styles_shadow = [k \in {} |-> PyNone]
    /\ _storage = <<>>
    /\ buttons = <<>>
    /\ last = NoCall
    /\ call = NoCall
    /\ NoImages
    /\ ui = NoUi

\* _Style.check_round(object_id)
CheckRoundCall(object_id) ==
    /\ call.op = "none"
    /\ call' = [op |-> "check_round", object_id |-> object_id, ret |-> check_round(object_id)]
    /\ UNCHANGED <<ui, _images, is_web, loads, styles_round, styles_hanging, styles_shadow, _storage, buttons, last>>

NextStyle ==
    \/ \E object_id \in LookupIds : CheckRoundCall(object_id)
    \/ Return

SpecStyle == InitStyle /\ [][NextStyle]_vars

\* the "shadow" table over every shape of entry, the other tables empty
InitShadow ==
    /\ styles_round = [k \in {} |-> PyNone]
    /\ styles_hanging = [k \in {} |-> PyNone]
    /\ styles_shadow \in [StyledIds -> JsonValues]
    /\ _storage = <<>>
    /\ buttons = <<>>
    /\ last = NoCall
    /\ call = NoCall
    /\ NoImages
    /\ ui = NoUi

\* _Style.check_shadow(object_id)
CheckShadowCall(object_id) ==
    /\ call.op = "none"
    /\ call' = [op |-> "check_shadow", object_id |-> object_id, ret |-> check_shadow(object_id)]
    /\ UNCHANGED <<ui, _images, is_web, loads, styles_round, styles_hanging, styles_shadow, _storage, buttons, last>>

NextShadow ==
    \/ \E object_id \in LookupIds : CheckShadowCall(object_id)
    \/ Return

SpecShadow == InitShadow /\ [][NextShadow]_vars

\* the "hanging" table over every shape of entry, the other tables empty
InitHanging ==
    /\ styles_round = [k \in {} |-> PyNone]
    /\ styles_hanging \in [StyledIds -> JsonValues]
    /\ styles_shadow = [k \in {} |-> PyNone]
    /\ _storage = <<>>
    /\ buttons = <<>>
    /\ last = NoCall
    /\ call = NoCall
    /\ NoImages
    /\ ui = NoUi

\* _Style.check_hanging(object_id)
CheckHangingCall(object_id) ==
    /\ call.op = "none"
    /\ call' = [op |-> "check_hanging", object_id |-> object_id, ret |-> check_hanging(object_id)]
    /\ UNCHANGED <<ui, _images, is_web, loads, styles_round, styles_hanging, styles_shadow, _storage, buttons, last>>

NextHanging ==
    \/ \E object_id \in LookupIds : CheckHangingCall(object_id)
    \/ Return

SpecHanging == InitHanging /\ [][NextHanging]_vars

---------------------------------------------------------------------------
(* The corners of _build on their own. *)

\* the lists of four flags
Flags == [1..4 -> BOOLEAN]

\* the corner lines of _build for a button of this variant and style
BuildCornersCall(variant, rounded_corners, shadow) ==
    /\ call.op = "none"
    /\ call' = [op |-> "_build.corners", variant |-> variant,
                rounded_corners |-> rounded_corners, shadow |-> shadow,
                ret |-> BuildCorners(variant, rounded_corners, shadow)]
    /\ UNCHANGED <<ui, _images, is_web, loads, styles_round, styles_hanging, styles_shadow,
                   _storage, buttons, last>>

NextCorner ==
    \/ \E variant \in {"RectButton", "SquareButton"}, rounded_corners \in Flags,
          shadow \in Flags : BuildCornersCall(variant, rounded_corners, shadow)
    \/ Return

SpecCorner == InitFacade /\ [][NextCorner]_vars

---------------------------------------------------------------------------
(* _edge called on its own. *)

\* the lengths passed: size[0] - 20 and size[1] - 16 of small buttons
EdgeLengths == -4..12

\* RectButton._edge(length, rotate=rotate, flip=flip, shadow=shadow)
EdgeCall(length, rotate, flip, shadow) ==
    /\ call.op = "none"
    /\ call' = [op |-> "_edge", length |-> length, rotate |-> rotate, flip |-> flip,
                shadow |-> shadow, ret |-> _edge(length, rotate, flip, shadow)]
    /\ UNCHANGED <<ui, _images, is_web, loads, styles_round, styles_hanging, styles_shadow,
                   _storage, buttons, last>>

NextEdge ==
    \/ \E length \in EdgeLengths, rotate \in BOOLEAN, flip \in BOOLEAN, shadow \in BOOLEAN :
          EdgeCall(length, rotate, flip, shadow)
    \/ Return

SpecEdge == InitFacade /\ [][NextEdge]_vars

---------------------------------------------------------------------------
(* load_image called on its own, on and off the web platform. *)

InitImage ==
    /\ styles_round = [k \in {} |-> PyNone]
    /\ styles_hanging = [k \in {} |-> PyNone]
    /\ styles_shadow = [k \in {} |-> PyNone]
    /\ _storage = <<>>
    /\ buttons = <<>>
    /\ last = NoCall
    /\ call = NoCall
    /\ _images = [path \in {} |-> NoImage]
    /\ is_web \in BOOLEAN
    /\ loads = [path \in Paths |-> 0]
    /\ ui = NoUi

NextImage == \E path \in Paths : load_image(path)

SpecImage == InitImage /\ [][NextImage]_vars

---------------------------------------------------------------------------
(* The label UIButton.__init__ resolves, on its own. *)

\* the text argument of UIButton
LabelTexts == {"", "Hang", "Save", "Salvar", "{DICE}", "a", "buttons.#hang"}

\* the object_id argument: None, identifiers the button files translate,
\* the identifiers of dict_global, and identifiers no table holds
LabelIds == {NoneId, "#hang", "#save", "#unknown", "#other"} \cup DOMAIN dict_global

\* UIButton.__init__: self.text
LabelCall(text, object_id) ==
    /\ call.op = "none"
    /\ call' = [op |-> "UIButton.text", text |-> text, object_id |-> object_id,
                ret |-> IF text /= "" THEN text ELSE Language_check(object_id)]
    /\ UNCHANGED <<ui, _images, is_web, loads, styles_round, styles_hanging, styles_shadow, _storage, buttons, last>>

NextLabel ==
    \/ \E text \in LabelTexts, object_id \in LabelIds : LabelCall(text, object_id)
    \/ Return

SpecLabel == InitFacade /\ [][NextLabel]_vars

---------------------------------------------------------------------------
(* _build_text called on its own. *)

\* the pieces labels are made of
Alphabet == {"{", "}", "DICE", "a", "\n"}

\* the labels passed: every sequence of at most MaxLabel pieces
Labels == UNION {[1..n -> Alphabet] : n \in 0..MaxLabel}

\* RectButton._build_text(text)
BuildTextCall(text) ==
    /\ call.op = "none"
    /\ call' = [op |-> "_build_text", text |-> text, ret |-> _build_text(text)]
    /\ UNCHANGED <<ui, _images, is_web, loads, styles_round, styles_hanging, styles_shadow, _storage, buttons, last>>

NextText ==
    \/ \E text \in Labels : BuildTextCall(text)
    \/ Return

SpecText == InitFacade /\ [][NextText]_vars

---------------------------------------------------------------------------
(* Specification of the hover flag: buttons of one style are constructed   *)
(* and driven by the widget framework.                                     *)

\* the object_id of the buttons constructed
HoverIds == {"#hang"}

NextHover ==
    \/ \E size \in Sizes, text \in Texts, object_id \in HoverIds :
          UIButton(size, text, object_id)
    \/ \E i \in 1..Len(buttons) : on_hovered(i)
    \/ \E i \in 1..Len(buttons) : while_hovered(i)
    \/ \E i \in 1..Len(buttons) : disable(i)
    \/ \E i \in 1..Len(buttons) : enable(i)
    \/ \E i \in 1..Len(buttons) : on_unhovered(i)

SpecHover == InitFacade /\ [][NextHover]_vars

---------------------------------------------------------------------------
(* Specification of the attribute writes: one widget is constructed and    *)
(* its attributes are assigned.                                            *)

NextAttr ==
    \/ \E visible, text, image_own, button_own \in AttrValues :
          UIButton__init__(visible, text, image_own, button_own)
    \/ \E name \in AttrNames, value \in AttrValues : setattr(name, value)

SpecAttr == InitFacade /\ [][NextAttr]_vars

---------------------------------------------------------------------------
(* Properties of the cache. *)

\* C1: after store_button(img, d), whatever the cache held before,
\* load_button(d) returns the entry whose surface is img.
C1_StoreThenLoad ==
    last.op = "store_button" =>
        LET ret == load_button(_storage, last.kwargs) IN
        Len(ret) = 1 /\ ret[1].surface = last.surface

\* C2: load_button(d) returns an entry exactly when some stored entry equals
\* d on all seven fields, and then an entry of the cache with these fields;
\* otherwise it returns False.
C2_LoadIffStored ==
    last.op = "load_button" =>
        /\ (last.ret /= <<>>) <=>
               (\E i \in 1..Len(_storage) : EntryKey(_storage[i]) = last.kwargs)
        /\ last.ret /= <<>> =>
               /\ EntryKey(last.ret[1]) = last.kwargs
               /\ \E i \in 1..Len(_storage) : _storage[i] = last.ret[1]

\* C2: a lookup missed although an entry differing in one field is stored
C2_Witness ==
    /\ last.op = "load_button"
    /\ last.ret = <<>>
    /\ \E i \in 1..Len(_storage) :
          Cardinality({key \in {"size", "text", "hover", "unavailable", "rounded_corners",
                                "shadows", "hanging"} :
                          EntryKey(_storage[i])[key] /= last.kwargs[key]}) = 1

\* C3: under the facade operations the cache never holds two entries with
\* the same descriptor (Button.new is called once per descriptor: every
\* entry the facade stores is the result of one call of Button.new).
C3_OneEntryPerDescriptor ==
    \A i, j \in 1..Len(_storage) :
        i /= j => EntryKey(_storage[i]) /= EntryKey(_storage[j])

\* C4: the surface a newly constructed UIButton displays is the one composed
\* for its own size, label and resolved style, with hover and unavailable
\* False.
C4_NewButtonShowsOwnSurface ==
    [][Len(buttons') = Len(buttons) + 1 =>
          LET w == buttons'[Len(buttons')] IN
          w.image = Scale(Button_new(ButtonKwargs(w, FALSE, FALSE)).surface, w.size)]_vars

\* C5: no step removes or alters a cache entry: every entry stays in
\* _storage as it is, and the number of entries never decreases.
C5_EntriesKept ==
    [][/\ Len(_storage') >= Len(_storage)
       /\ \A i \in 1..Len(_storage) : \E j \in 1..Len(_storage') : _storage'[j] = _storage[i]]_vars

\* C5: direct calls and facade operations have both filled the cache
C5_Witness ==
    /\ Len(_storage) >= 3
    /\ Len(buttons) >= 1
    /\ \E i, j \in 1..Len(_storage) :
          /\ i < j
          /\ _storage[i].surface \in MixSurfaces
          /\ _storage[j].surface \notin MixSurfaces

\* the entry the facade keeps for widget w in the state (hover, unavailable)
StateEntry(w, hover, unavailable) ==
    StoreEntry(Button_new(ButtonKwargs(w, hover, unavailable)).surface,
               ButtonKwargs(w, hover, unavailable))

\* the cache holds that entry
Held(store, w, hover, unavailable) ==
    LET e == StateEntry(w, hover, unavailable) IN
    \E j \in 1..Len(store) : store[j] = e

\* C6: on_hovered displays the surface of the widget's descriptor with
\* hover=True, disable the one with unavailable=True, on_unhovered the one
\* with both False; each leaves the entry of that descriptor in the cache,
\* where every entry stays, so that once the three have occurred the cache
\* holds the three entries, whose descriptors differ in the hover and
\* unavailable fields only.
C6_StateSurfaces ==
    [][/\ Len(_storage') >= Len(_storage)
       /\ SubSeq(_storage', 1, Len(_storage)) = _storage
       /\ \A i \in 1..Len(buttons) :
             LET w == buttons[i]
                 plain == ButtonKwargs(w, FALSE, FALSE)
                 hovered == ButtonKwargs(w, TRUE, FALSE)
                 disabled == ButtonKwargs(w, FALSE, TRUE)
                 Shown(hover, unavailable) ==
                     LET e == StateEntry(w, hover, unavailable) IN
                     /\ buttons'[i].image = Scale(e.surface, w.size)
                     /\ \E j \in 1..Len(_storage') : _storage'[j] = e
                 \* what a method called on widget i leaves as it is: the other
                 \* widgets; and the hover flag it leaves in widget i
                 Touched(hover) ==
                     /\ Len(buttons') = Len(buttons)
                     /\ buttons'[i].hover = hover
                     /\ \A j \in 1..Len(buttons) : j /= i => buttons'[j] = buttons[j]
             IN  /\ (Touched(TRUE) /\ on_hovered(i)) => Shown(TRUE, FALSE)
                 /\ (Touched(FALSE) /\ disable(i)) => Shown(FALSE, TRUE)
                 /\ (Touched(FALSE) /\ on_unhovered(i)) => Shown(FALSE, FALSE)
                 /\ [hovered EXCEPT !.hover = FALSE] = plain
                 /\ [disabled EXCEPT !.unavailable = FALSE] = plain]_vars

\* C6: one widget has been hovered, unhovered and disabled, and the cache
\* holds its three entries, their surfaces pairwise different
C6_Witness ==
    \E i \in 1..Len(buttons) :
        LET w == buttons[i] IN
        /\ Held(_storage, w, TRUE, FALSE)
        /\ Held(_storage, w, FALSE, TRUE)
        /\ Held(_storage, w, FALSE, FALSE)
        /\ w.image = Scale(StateEntry(w, FALSE, TRUE).surface, w.size)
        /\ Cardinality({StateEntry(w, TRUE, FALSE).surface, StateEntry(w, FALSE, TRUE).surface,
                        StateEntry(w, FALSE, FALSE).surface}) = 3

---------------------------------------------------------------------------
(* Properties of Button.new. *)

\* a rounded_corners or shadows value of the documented shape
WellShaped(v) == v.t = "bool" \/ (v.t \in {"list", "tuple"} /\ Len(v.l) = 4)

\* C7: with hanging False, Button.new returns a surface whose width and
\* height are exactly those of size, for the square and the rectangular
\* variant, and it returns one for every well-shaped style.
C7_SizeExact ==
    (call.op = "Button.new" /\ call.kwargs.hanging = PyBool(FALSE)) =>
        /\ (WellShaped(call.kwargs.rounded_corners) /\ WellShaped(call.kwargs.shadows)) =>
               call.ret.exc = "none"
        /\ call.ret.exc = "none" =>
               /\ call.ret.surface.width = call.kwargs.size[1]
               /\ call.ret.surface.height = call.kwargs.size[2]
               /\ call.ret.surface.variant =
                      IF call.kwargs.size[1] = call.kwargs.size[2] THEN "SquareButton"
                      ELSE "RectButton"

\* C7: a square button without ropes was composed
C7_Witness ==
    /\ call.op = "Button.new"
    /\ call.kwargs.hanging = PyBool(FALSE)
    /\ call.kwargs.size = <<40, 40>>
    /\ call.ret.exc = "none"
    /\ call.ret.surface.variant = "SquareButton"

\* C8: with hanging True, Button.new returns a surface of the width of size
\* and of its height plus 6: a body of the requested size, 6 px down.
C8_HangingAddsSix ==
    (call.op = "Button.new" /\ call.kwargs.hanging = PyBool(TRUE) /\ call.ret.exc = "none") =>
        /\ call.ret.surface.width = call.kwargs.size[1]
        /\ call.ret.surface.height = call.kwargs.size[2] + 6
        /\ call.ret.surface.body_size = call.kwargs.size
        /\ call.ret.surface.body_top = 6

\* C8 as amended: with hanging True and a height of at least 6, Button.new
\* returns a surface of exactly the requested width and height: a body 6 px
\* lower than requested, moved 6 px down under the band of the ropes.
C8_HangingKeepsSize ==
    (call.op = "Button.new" /\ call.kwargs.hanging = PyBool(TRUE)
        /\ call.kwargs.size[2] >= 6) =>
        /\ (WellShaped(call.kwargs.rounded_corners) /\ WellShaped(call.kwargs.shadows)) =>
               call.ret.exc = "none"
        /\ call.ret.exc = "none" =>
               /\ call.ret.surface.width = call.kwargs.size[1]
               /\ call.ret.surface.height = call.kwargs.size[2]
               /\ call.ret.surface.body_size = <<call.kwargs.size[1], call.kwargs.size[2] - 6>>
               /\ call.ret.surface.body_top = 6
               /\ call.ret.surface.ropes

\* C8: a hanging button was composed
C8_Witness ==
    /\ call.op = "Button.new"
    /\ call.kwargs.hanging = PyBool(TRUE)
    /\ call.kwargs.size = <<61, 40>>
    /\ call.ret.exc = "none"
    /\ call.ret.surface.ropes

\* C9: Button.new raises ValueError, before a surface is created, whenever
\* rounded_corners or shadows is neither a bool nor a sequence of length 4.
C9_BadShapeRaises ==
    (call.op = "Button.new"
        /\ (~WellShaped(call.kwargs.rounded_corners) \/ ~WellShaped(call.kwargs.shadows))) =>
        /\ call.ret.exc = "ValueError"
        /\ ~call.ret.created

\* C15: the label's centre is horizontally the centre of the button (w/2)
\* in every case; vertically it is the centre of the body plus 2 px for a
\* text label, plus 2 + 6 px when hanging, and exactly the centre of the
\* body for a single glyph token.  (Coordinates in half pixels.)
C15_LabelCentred ==
    (call.op = "Button.new" /\ call.ret.exc = "none") =>
        LET sf == call.ret.surface IN
        /\ sf.text_center[1] = sf.body_size[1]
        /\ sf.text_center[2] =
               IF call.kwargs.text \in GlyphKeys THEN sf.body_size[2]
               ELSE IF call.kwargs.hanging = PyBool(TRUE) THEN sf.body_size[2] + 4 + 12
               ELSE sf.body_size[2] + 4

\* C15 as amended: the label's centre is w/2 + 1 horizontally for every
\* label of a hanging button and for every text label, and w/2 for a single
\* glyph token on a button that does not hang; vertically it is half the
\* body height plus 2 + 6 px when hanging (glyph token or not), plus 2 px
\* for a text label on a button that does not hang, and exactly half the
\* body height for a single glyph token on a button that does not hang.
C15_LabelPlacement ==
    (call.op = "Button.new" /\ call.ret.exc = "none") =>
        LET sf == call.ret.surface
            glyph == call.kwargs.text \in GlyphKeys
        IN  IF call.kwargs.hanging = PyBool(TRUE)
            THEN sf.text_center = <<sf.body_size[1] + 2, sf.body_size[2] + 4 + 12>>
            ELSE IF glyph THEN sf.text_center = <<sf.body_size[1], sf.body_size[2]>>
            ELSE sf.text_center = <<sf.body_size[1] + 2, sf.body_size[2] + 4>>

\* C15: a hanging button labelled with a glyph token was composed
C15_Witness ==
    /\ call.op = "Button.new"
    /\ call.ret.exc = "none"
    /\ call.kwargs.hanging = PyBool(TRUE)
    /\ call.kwargs.text = "{DICE}"
    /\ call.kwargs.size = <<61, 40>>
    /\ call.ret.surface.text_center = <<63, 50>>

\* C21: the palette a composed button is drawn with is the unavailable one
\* when unavailable is true (hover true or not), else the hover one when
\* hover is true, else the default one, whatever size, text, rounded_corners,
\* shadows and hanging are.
C21_PaletteByFlags ==
    (call.op = "Button.new" /\ call.ret.exc = "none") =>
        /\ call.kwargs.unavailable => call.ret.surface.palette = "unavailable"
        /\ (~call.kwargs.unavailable /\ call.kwargs.hover) =>
               call.ret.surface.palette = "hover"
        /\ (~call.kwargs.unavailable /\ ~call.kwargs.hover) =>
               call.ret.surface.palette = "palette"

\* C21: a button both hovered and unavailable was composed with the
\* unavailable palette
C21_Witness ==
    /\ call.op = "Button.new"
    /\ call.ret.exc = "none"
    /\ call.kwargs.hover
    /\ call.kwargs.unavailable
    /\ call.ret.surface.palette = "unavailable"

---------------------------------------------------------------------------
(* Properties of the tiles. *)

\* the two edges next to corner k (1 top left, 2 top right, 3 bottom left,
\* 4 bottom right), as positions in shadows: 1 top, 2 left, 3 right, 4 bottom
Adjacent(k) ==
    CASE k = 1 -> <<1, 2>> [] k = 2 -> <<1, 3>> [] k = 3 -> <<4, 2>> [] OTHER -> <<4, 3>>

\* the cell of corner k at the corner of the button
Outermost(k) ==
    CASE k = 1 -> <<0, 0>> [] k = 2 -> <<9, 0>> [] k = 3 -> <<0, 7>> [] OTHER -> <<9, 7>>

\* C20: in both variants a rounded corner has its fill cells in the shadow
\* colour if both of its adjacent edges are shadowed and in the fill colour
\* otherwise; each corner takes the flags of its own two edges and its own
\* rounded flag (a rounded corner leaves its outermost cell undrawn).
C20_CornerShadowBoth ==
    call.op = "_build.corners" =>
        \A k \in 1..4 :
            LET tile == call.ret[k]
                both == call.shadow[Adjacent(k)[1]] /\ call.shadow[Adjacent(k)[2]]
                fill_cells == {c \in Cells : tile[c] \in {3, 4}}
            IN  /\ call.rounded_corners[k] <=> tile[Outermost(k)] = 0
                /\ call.rounded_corners[k] =>
                      /\ fill_cells /= {}
                      /\ \A c \in fill_cells : tile[c] = IF both THEN 4 ELSE 3

\* C20 as amended: a rounded corner of RectButton has its fill cells in the
\* shadow colour if both of its adjacent edges are shadowed and in the fill
\* colour otherwise; a rounded corner of SquareButton has cells in the
\* shadow colour if and only if at least one of its adjacent edges is
\* shadowed, beside cells left in the fill colour; each corner takes the
\* flags of its own two edges and its own rounded flag.
C20_CornerShadow ==
    call.op = "_build.corners" =>
        \A k \in 1..4 :
            LET tile == call.ret[k]
                s1 == call.shadow[Adjacent(k)[1]]
                s2 == call.shadow[Adjacent(k)[2]]
                fill_cells == {c \in Cells : tile[c] \in {3, 4}}
            IN  /\ call.rounded_corners[k] <=> tile[Outermost(k)] = 0
                /\ call.rounded_corners[k] =>
                      IF call.variant = "RectButton"
                      THEN /\ fill_cells /= {}
                           /\ \A c \in fill_cells : tile[c] = IF s1 /\ s2 THEN 4 ELSE 3
                      ELSE /\ (\E c \in Cells : tile[c] = 4) <=> (s1 \/ s2)
                           /\ \E c \in Cells : tile[c] = 3

\* C20: a square button shadowed on top only was built, and its rounded
\* top right corner has cells in the shadow colour
C20_Witness ==
    /\ call.op = "_build.corners"
    /\ call.variant = "SquareButton"
    /\ call.shadow = <<TRUE, FALSE, FALSE, FALSE>>
    /\ call.rounded_corners[2]
    /\ \E c \in Cells : call.ret[2][c] = 4
    /\ \A c \in Cells : call.ret[3][c] /= 4

\* C19: an edge tile requested with an odd length n has length n + 1, its
\* outline band n + 1 wide and its inline and fill bands n wide; a tile
\* requested with an even length n has length n and three bands n wide.
C19_OddEdgePadded ==
    (call.op = "_edge" /\ call.length >= 0) =>
        LET n == call.length IN
        IF n % 2 = 1
        THEN /\ call.ret.length = n + 1
             /\ call.ret.outline = n + 1
             /\ call.ret.inline = n
             /\ call.ret.fill = n
        ELSE /\ call.ret.length = n
             /\ call.ret.outline = n
             /\ call.ret.inline = n
             /\ call.ret.fill = n

---------------------------------------------------------------------------
(* Properties of load_image. *)

\* C18: pygame.image.load is called only for a path that is not in the
\* cache, so it returns a surface at most once per path, and every call
\* that returns gives the surface the cache holds for the path.
C18_LoadOncePerPath ==
    /\ \A path \in Paths : loads[path] <= 1
    /\ last.op = "load_image" =>
          /\ last.loaded => ~last.cached
          /\ last.exc = "none" =>
                /\ last.path \in DOMAIN _images
                /\ last.ret = _images[last.path]

\* C18 as amended: off the web platform (is_web false) the statement above
\* holds; on the web platform every call calls pygame.image.load and returns
\* the surface just loaded, and the cache stays empty.
C18_LoadOncePerPathOffWeb ==
    IF ~is_web
    THEN /\ \A path \in Paths : loads[path] <= 1
         /\ DOMAIN _images = {path \in Paths : loads[path] = 1}
         /\ last.op = "load_image" =>
               /\ last.loaded <=> ~last.cached
               /\ last.exc = "none" =>
                     /\ last.path \in DOMAIN _images
                     /\ last.ret = _images[last.path]
                     /\ last.ret = [path |-> last.path, n |-> 1]
    ELSE /\ DOMAIN _images = {}
         /\ last.op = "load_image" =>
               /\ last.loaded
               /\ last.exc = "none" => last.ret = [path |-> last.path, n |-> loads[last.path]]

\* C18: off the web platform a second call for a path was served from the
\* cache, after a path that names no file was tried
C18_Witness ==
    /\ ~is_web
    /\ last.op = "load_image"
    /\ last.cached
    /\ ~last.loaded
    /\ last.ret = _images[last.path]
    /\ Cardinality(DOMAIN _images) >= 2

---------------------------------------------------------------------------
(* Properties of the label resolution. *)

\* C16: a non-empty text is the label; otherwise the label is the entry of
\* the object_id in the active locale, else in dict_global, else in the
\* locale en-us, and the empty string when none of them has an entry and
\* when the object_id is None.
C16_LabelResolution ==
    call.op = "UIButton.text" =>
        LET id == call.object_id IN
        call.ret =
            IF call.text /= "" THEN call.text
            ELSE IF id = NoneId THEN ""
            ELSE IF id \in DOMAIN Translations[LANGUAGE] THEN Translations[LANGUAGE][id]
            ELSE IF id \in DOMAIN dict_global THEN dict_global[id]
            ELSE IF id \in DOMAIN Translations["en-us"] THEN Translations["en-us"][id]
            ELSE ""

---------------------------------------------------------------------------
(* Properties of _Style. *)

\* C10: check_round(id) returns the configured list when the table maps id
\* to a list of length 4, four times b when it maps id to a bool b, and
\* [True, True, True, True] in every other case.
C10_CheckRound ==
    call.op = "check_round" =>
        LET id == call.object_id
            present == id \in DOMAIN styles_round
        IN  IF present /\ styles_round[id].t = "list" /\ Len(styles_round[id].l) = 4
            THEN call.ret = styles_round[id]
            ELSE IF present /\ styles_round[id].t = "bool"
            THEN call.ret = PyList(<<styles_round[id].b, styles_round[id].b,
                                     styles_round[id].b, styles_round[id].b>>)
            ELSE call.ret = PyList(<<TRUE, TRUE, TRUE, TRUE>>)

\* C10: a configured False was broadcast to the four corners
C10_Witness ==
    /\ call.op = "check_round"
    /\ call.object_id \in DOMAIN styles_round
    /\ styles_round[call.object_id] = PyBool(FALSE)
    /\ call.ret = PyList(<<FALSE, FALSE, FALSE, FALSE>>)

\* C11: check_shadow(id) returns the configured list only when the table
\* maps id to a list of length 4, and [True, True, False, False] in every
\* other case: a configured bool (not broadcast), a list of another length,
\* any other value, an absent id and the id None.
C11_CheckShadow ==
    call.op = "check_shadow" =>
        LET id == call.object_id
            present == id /= NoneId /\ id \in DOMAIN styles_shadow
        IN  IF present /\ styles_shadow[id].t = "list" /\ Len(styles_shadow[id].l) = 4
            THEN call.ret = styles_shadow[id]
            ELSE call.ret = PyList(<<TRUE, TRUE, FALSE, FALSE>>)

\* C11: a configured True was answered with the default, not broadcast
C11_Witness ==
    /\ call.op = "check_shadow"
    /\ call.object_id \in DOMAIN styles_shadow
    /\ styles_shadow[call.object_id] = PyBool(TRUE)
    /\ call.ret = PyList(<<TRUE, TRUE, FALSE, FALSE>>)

\* C12: check_hanging(id) always returns a bool: False for an absent id and
\* for the id None, the configured value when it is a bool, and False when
\* the configured value is not a bool.
C12_CheckHangingBool ==
    call.op = "check_hanging" =>
        LET id == call.object_id
            present == id /= NoneId /\ id \in DOMAIN styles_hanging
        IN  /\ call.ret.t = "bool"
            /\ call.ret = IF present /\ styles_hanging[id].t = "bool" THEN styles_hanging[id]
                          ELSE PyBool(FALSE)

---------------------------------------------------------------------------
(* Properties of _build_text. *)

\* C13: when the whole label is a key of the glyph table, _build_text
\* returns the table's image itself (no tokenizing, no padding, no font
\* rendering) and marks the button as a symbol button; for every other label
\* it takes the layout path and the button is not a symbol button.
C13_SymbolShortCircuit ==
    call.op = "_build_text" =>
        IF Str(call.text) \in GlyphKeys
        THEN /\ call.ret.exc = "none"
             /\ call.ret.symbol
             /\ call.ret.surface = [kind |-> "glyph", key |-> Str(call.text)]
        ELSE /\ ~call.ret.symbol
             /\ call.ret.surface.kind = "layout"

\* C13: the label {DICE} was passed and answered with the glyph
C13_Witness ==
    /\ call.op = "_build_text"
    /\ call.text = <<"{", "DICE", "}">>
    /\ call.ret.symbol
    /\ call.ret.surface.kind = "glyph"

\* the pieces of the runs of one line, one after the other
RECURSIVE JoinRuns(_)
JoinRuns(runs) == IF runs = <<>> THEN <<>> ELSE Head(runs).chars \o JoinRuns(Tail(runs))

\* C14: the tokenizer never raises, whatever the mix of braces and other
\* characters; it loses no character and keeps their order; every "{" opens
\* a token, into which what follows accumulates up to the next brace, and
\* every "}" stays in the token it ends; a token that is not a glyph key is
\* rendered as literal text, unmatched braces included.
C14_TokenizerPermissive ==
    (call.op = "_build_text" /\ Str(call.text) \notin GlyphKeys) =>
        /\ call.ret.exc = "none"
        /\ Len(call.ret.surface.lines) = Len(split_lines(call.text))
        /\ \A k \in 1..Len(call.ret.surface.lines) :
              LET runs == call.ret.surface.lines[k] IN
              /\ JoinRuns(runs) = split_lines(call.text)[k]
              /\ \A i \in 1..Len(runs) :
                    /\ runs[i].chars /= <<>>
                    /\ \A j \in 1..Len(runs[i].chars) :
                          /\ runs[i].chars[j] = "{" => j = 1
                          /\ runs[i].chars[j] = "}" => j = Len(runs[i].chars)
                    /\ runs[i].s = Str(runs[i].chars)
                    /\ runs[i].kind = IF runs[i].s \in GlyphKeys THEN "padded_glyph" ELSE "font"
                    /\ i < Len(runs) =>
                          \/ runs[i].chars[Len(runs[i].chars)] = "}"
                          \/ runs[i + 1].chars[1] = "{"

\* C14: a line with an unmatched "}" and then an unmatched "{" was laid out
C14_Witness ==
    /\ call.op = "_build_text"
    /\ call.text = <<"a", "}", "{", "a">>
    /\ call.ret.exc = "none"
    /\ call.ret.surface.lines =
           << << [kind |-> "font", s |-> "a}", chars |-> <<"a", "}">>],
                 [kind |-> "font", s |-> "{a", chars |-> <<"{", "a">>] >> >>

\* C22: for a label on the layout path, the runs of a line are blitted left
\* to right without a gap, a glyph run being the glyph's height + 4 high;
\* the line image is as wide as the runs together and as high as the highest
\* run; the label image is as wide as the widest line and as high as the
\* lines together, each line blitted at x = (width - line width) / 2 right
\* under the line before; the empty label gives a 0 by 0 image and no error.
C22_Layout ==
    (call.op = "_build_text" /\ call.ret.exc = "none" /\ ~call.ret.symbol) =>
        LET surface == call.ret.surface
            rows == surface.rows
        IN  /\ surface.kind = "layout"
            /\ Len(rows) = Len(surface.lines)
            /\ \A k \in 1..Len(rows) :
                  LET row == rows[k]
                      runs == surface.lines[k]
                      n == Len(row.blits)
                  IN  /\ n = Len(runs)
                      /\ \A i \in 1..n :
                            /\ runs[i].kind = "padded_glyph" =>
                                  /\ row.blits[i].width = GlyphSize(runs[i].s).width
                                  /\ row.blits[i].height = GlyphSize(runs[i].s).height + 4
                            /\ runs[i].kind = "font" =>
                                  /\ row.blits[i].width = FontSize(runs[i].chars).width
                                  /\ row.blits[i].height = FontSize(runs[i].chars).height
                            /\ row.blits[i].x =
                                  IF i = 1 THEN 0
                                  ELSE row.blits[i - 1].x + row.blits[i - 1].width
                            /\ row.blits[i].height <= row.height
                      /\ row.width = IF n = 0 THEN 0 ELSE row.blits[n].x + row.blits[n].width
                      /\ IF n = 0 THEN row.height = 0
                         ELSE \E i \in 1..n : row.blits[i].height = row.height
                      /\ row.width <= surface.width
                      /\ row.x2 = surface.width - row.width
                      /\ row.y = IF k = 1 THEN 0 ELSE rows[k - 1].y + rows[k - 1].height
            /\ \E k \in 1..Len(rows) : rows[k].width = surface.width
            /\ surface.height = rows[Len(rows)].y + rows[Len(rows)].height
            /\ call.text = <<>> => (surface.width = 0 /\ surface.height = 0)

\* C22: "{DICE}a" was laid out: a padded glyph and a lower font run after it
C22_Witness ==
    /\ call.op = "_build_text"
    /\ call.text = <<"{", "DICE", "}", "a">>
    /\ call.ret.exc = "none"
    /\ call.ret.surface.width = 24
    /\ call.ret.surface.height = 20
    /\ call.ret.surface.rows[1].blits =
           << [width |-> 16, height |-> 20, x |-> 0], [width |-> 8, height |-> 16, x |-> 16] >>
    /\ call.ret.surface.rows[1].x2 = 0
    /\ call.ret.surface.rows[1].y = 0


\* C25: for every line the tokens are non-empty, each token is the stretch
\* of the line that starts where the token before ends, the last token ends
\* where the line ends, and each '{x}' of the line with no brace in x is
\* exactly one token.
C25_TokensCoverLine ==
    (call.op = "_build_text" /\ ~call.ret.symbol) =>
        /\ call.ret.exc = "none"
        /\ \A k \in 1..Len(call.ret.surface.lines) :
              LET line == split_lines(call.text)[k]
                  tokens == [i \in 1..Len(call.ret.surface.lines[k]) |->
                                call.ret.surface.lines[k][i].chars]
                  start[i \in 1..(Len(tokens) + 1)] ==
                      IF i = 1 THEN 1 ELSE start[i - 1] + Len(tokens[i - 1])
              IN  /\ \A i \in 1..Len(tokens) :
                        /\ tokens[i] /= <<>>
                        /\ start[i] + Len(tokens[i]) - 1 <= Len(line)
                        /\ tokens[i] = SubSeq(line, start[i], start[i] + Len(tokens[i]) - 1)
                  /\ start[Len(tokens) + 1] = Len(line) + 1
                  /\ \A p \in 1..Len(line) : \A q \in (p + 1)..Len(line) :
                        (/\ line[p] = "{"
                         /\ line[q] = "}"
                         /\ \A m \in (p + 1)..(q - 1) : line[m] \notin {"{", "}"}) =>
                            \E i \in 1..Len(tokens) :
                                start[i] = p /\ Len(tokens[i]) = q - p + 1

\* C25: "a{a}" was cut into a and {a}
C25_Witness ==
    /\ call.op = "_build_text"
    /\ call.text = <<"a", "{", "a", "}">>
    /\ call.ret.exc = "none"
    /\ call.ret.surface.lines =
           << << [kind |-> "font", s |-> "a", chars |-> <<"a">>],
                 [kind |-> "font", s |-> "{a}", chars |-> <<"{", "a", "}">>] >> >>


(* Properties of the states of a CatButton. *)

\* C23: a button whose most recent enable/disable call was disable displays
\* the surface of its descriptor with unavailable=True, whatever on_hovered
\* and on_unhovered calls came since.
C23_DisabledShowsUnavailable ==
    \A i \in 1..Len(buttons) :
        LET w == buttons[i] IN
        ~w.is_enabled => w.image = Scale(StateEntry(w, FALSE, TRUE).surface, w.size)

\* C24: enable displays the hover surface when the hover flag is set and the
\* default surface when it is not, never the unavailable one, and leaves the
\* flag as it was; the flag is set by on_hovered and while_hovered, cleared
\* by on_unhovered and disable, false in a new button and untouched by calls
\* on other buttons, so that it is set exactly when a hover call is the most
\* recent of the four; disable followed by enable hence displays the default
\* surface.
C24_EnableByHover ==
    [][/\ \A i \in 1..Len(buttons) :
             LET w == buttons[i]
                 after == buttons'[i]
                 Only ==
                     /\ Len(buttons') = Len(buttons)
                     /\ \A j \in 1..Len(buttons) : j /= i => buttons'[j] = buttons[j]
             IN  /\ (Only /\ after.hover = w.hover /\ enable(i)) =>
                        /\ after.is_enabled
                        /\ after.image = Scale(StateEntry(w, w.hover, FALSE).surface, w.size)
                        /\ after.image.palette = IF w.hover THEN "hover" ELSE "palette"
                 /\ (Only /\ after.hover /= w.hover) => ~enable(i)
                 /\ (Only /\ ~after.hover) => (~on_hovered(i) /\ ~while_hovered(i))
                 /\ (Only /\ after.hover) => (~on_unhovered(i) /\ ~disable(i))
                 /\ (Len(buttons') = Len(buttons) /\ after.hover /= w.hover) =>
                        IF after.hover THEN on_hovered(i) \/ while_hovered(i)
                        ELSE on_unhovered(i) \/ disable(i)
       /\ Len(buttons') > Len(buttons) => ~buttons'[Len(buttons')].hover]_vars

\* C24: the only button was disabled, hovered and enabled: it displays the
\* hover surface
C24_Witness ==
    /\ Len(buttons) = 1
    /\ Held(_storage, buttons[1], FALSE, TRUE)
    /\ buttons[1].is_enabled
    /\ buttons[1].hover
    /\ buttons[1].image = Scale(StateEntry(buttons[1], TRUE, FALSE).surface, buttons[1].size)
    /\ _storage[Len(_storage)] = StateEntry(buttons[1], TRUE, FALSE)


(* Properties of UIButton.__setattr__. *)

\* an assignment to a name __setattr__ does not test for changes that
\* attribute of the wrapper and nothing else
WrapperOnly ==
    \A name \in Unmirrored, value \in AttrValues :
        setattr(name, value) =>
            /\ ui'.wrapper = [ui.wrapper EXCEPT ![name] = value]
            /\ ui'.image = ui.image
            /\ ui'.button = ui.button

\* C26: once the widget is constructed, and after every assignment, each of
\* visible, dynamic_dimensions_orig_top_left, _rect and blit_data has the same
\* value on the wrapper, the image and the button; an assignment to another
\* attribute changes the wrapper only.
C26_AllMirrored ==
    [][/\ ui'.made =>
             \A n \in Mirrored :
                 ui'.wrapper[n] = ui'.image[n] /\ ui'.wrapper[n] = ui'.button[n]
       /\ WrapperOnly]_vars

\* C26 amended: visible has the same value on the three objects from the
\* construction on, and each of dynamic_dimensions_orig_top_left, _rect and
\* blit_data has once it was assigned on the wrapper, the assignment leaving
\* the assigned value on the three; an assignment to another attribute
\* changes the wrapper only.
C26_MirroredOnceAssigned ==
    [][/\ ui'.made =>
             /\ ui'.wrapper["visible"] /= Absent
             /\ \A n \in Mirrored :
                   ui'.wrapper[n] /= Absent =>
                       ui'.wrapper[n] = ui'.image[n] /\ ui'.wrapper[n] = ui'.button[n]
       /\ \A name \in Mirrored, value \in AttrValues :
             setattr(name, value) =>
                 /\ ui'.wrapper[name] = value
                 /\ \A n \in AttrNames \ {name} :
                       /\ ui'.wrapper[n] = ui.wrapper[n]
                       /\ ui'.image[n] = ui.image[n]
                       /\ ui'.button[n] = ui.button[n]
       /\ WrapperOnly]_vars

\* C26: _rect was assigned and is the same on the three objects, blit_data
\* was not and the sub-widgets still hold different values of their own
C26_Witness ==
    /\ ui.made
    /\ ui.wrapper["_rect"] = "v2"
    /\ ui.image["_rect"] = "v2"
    /\ ui.button["_rect"] = "v2"
    /\ ui.wrapper["blit_data"] = Absent
    /\ ui.image["blit_data"] = "v1"
    /\ ui.button["blit_data"] = "v2"
    /\ ui.wrapper["state"] = "v2"
    /\ ui.image["state"] = "v1"


=============================================================================
